---- MODULE Spec2Model ----
(***************************************************************************)
(* A model of datasets/convert_images_tfrecords.py: the conversion of a    *)
(* tree of labelled JPEG images into sharded TFRecord files.               *)
(*                                                                         *)
(* Strings that the program only compares are kept as strings.  Names that *)
(* the program sorts (class directory names) are natural numbers whose     *)
(* order stands for the lexicographic order of the names.  File names      *)
(* inside a class directory are natural numbers too; 0 is '.DS_Store'.     *)
(***************************************************************************)
EXTENDS Integers, Sequences, FiniteSets, TLC

(***************************************************************************)
(* Bounds of the model.                                                    *)
(***************************************************************************)
MaxClasses == 2   \* class directories under the photos root
MaxFiles == 7     \* entries of one class directory
MaxSlack == 1     \* how far num_valid may lie outside 0..number of images

(***************************************************************************)
(* Module constants of the program.                                        *)
(***************************************************************************)
_RANDOM_SEED == 0
_NUM_SHARDS == 5
DS_Store == 0

VARIABLES
  photos,                 \* the photos tree: the listing of the root, in os.listdir order
  num_valid,              \* argument of convert_images
  photos_subdir,          \* argument of convert_images
  tfrecords_subdir,       \* argument of convert_images
  disk,                   \* the shard files that exist: file name -> records
  dirs,                   \* the subdirectories of dataset_dir that exist
  labelFileExists,        \* whether the label file has been written
  rng,                    \* state of the module-level random generator
  pc,                     \* position of the caller / of convert_images
  scanned_filenames,      \* photo_filenames as returned by the scanner (line 192)
  photo_filenames,        \* photo_filenames after random.shuffle (line 197)
  class_names,            \* line 192
  class_names_to_ids,     \* line 193
  labels_to_class_names,  \* line 208
  training_filenames,     \* line 198
  validation_filenames,   \* line 199
  split_name,             \* _convert_dataset: the split being converted
  shard_id,               \* _convert_dataset: loop variable of line 125
  ndx,                    \* _convert_dataset: loop variable i of line 132
  end_ndx,                \* _convert_dataset: line 131
  writerOpen,             \* whether the TFRecordWriter of line 129 is open
  existedAtStart,         \* history: all expected shard files existed when the run began
  created,                \* history: shard files this run has opened for writing
  labelsWritten,          \* history: this run has written the label file
  decodes,                \* history: images this run has handed to the decoder
  prevSplit               \* history: the split computed by the previous run, if any

vars == <<photos, num_valid, photos_subdir, tfrecords_subdir, disk, dirs, labelFileExists,
          rng, pc, scanned_filenames, photo_filenames, class_names,
          class_names_to_ids, labels_to_class_names, training_filenames,
          validation_filenames, split_name, shard_id, ndx, end_ndx, writerOpen,
          existedAtStart, created, labelsWritten, decodes, prevSplit>>

(***************************************************************************)
(* Helpers on sequences and integers.                                      *)
(***************************************************************************)
Min(a, b) == IF a < b THEN a ELSE b
Max(a, b) == IF a > b THEN a ELSE b
Range(s) == {s[k] : k \in DOMAIN s}

RECURSIVE Concat(_)
Concat(ss) == IF ss = <<>> THEN <<>> ELSE Head(ss) \o Concat(Tail(ss))

(***************************************************************************)
(* Python list slicing, s[k:] and s[:k]: a negative index counts from the  *)
(* end, and an index outside the list is clipped to it.                    *)
(***************************************************************************)
SliceIndex(k, n) == IF k < 0 THEN Max(k + n, 0) ELSE Min(k, n)

\* variant: s[k+1:], a slice that starts one element late
PySliceFrom_dropFirst(s, k) == SubSeq(s, SliceIndex(k, Len(s)) + 2, Len(s))
PySliceFrom(s, k) == SubSeq(s, SliceIndex(k, Len(s)) + 1, Len(s))

\* variant: a negative index taken as 0 instead of counting from the end
PySliceTo_noNegative(s, k) == SubSeq(s, 1, Min(Max(k, 0), Len(s)))
PySliceTo(s, k) == SubSeq(s, 1, SliceIndex(k, Len(s)))

(***************************************************************************)
(* sorted(): insertion sort into ascending order.                          *)
(***************************************************************************)
RECURSIVE Insert(_, _)
Insert(x, s) ==
  IF s = <<>> THEN <<x>>
  ELSE IF x <= Head(s) THEN <<x>> \o s
  ELSE <<Head(s)>> \o Insert(x, Tail(s))

RECURSIVE InsertionSort(_)
InsertionSort(s) == IF s = <<>> THEN <<>> ELSE Insert(Head(s), InsertionSort(Tail(s)))

\* variant: the listing order kept, no sort
Sorted_unsorted(s) == s
Sorted(s) == InsertionSort(s)

(***************************************************************************)
(* dict(zip(keys, vals)): zip stops at the shorter argument, and a key     *)
(* that occurs twice keeps its last value.                                 *)
(***************************************************************************)
DictZip(keys, vals) ==
  LET n == Min(Len(keys), Len(vals))
      last(key) == CHOOSE k \in 1..n : keys[k] = key /\ \A m \in (k+1)..n : keys[m] # key
  IN [key \in {keys[k] : k \in 1..n} |-> vals[last(key)]]

\* range(n) as a list
RangeList(n) == [k \in 1..n |-> k - 1]

(***************************************************************************)
(* The module-level generator of the random library.  The library's        *)
(* generator is a deterministic function of its state; a small linear      *)
(* congruential generator stands for it here.  random.seed(a) replaces the *)
(* state by one that depends on a alone.                                   *)
(***************************************************************************)
RngStates == 0..10
RngNext(s) == (2 * s + 1) % 11

\* variant: the generator is not reseeded
random_seed_keepState(state, a) == state
random_seed(state, a) == a % 11

\* x with the elements at positions a and b exchanged
Swap(x, a, b) == [x EXCEPT ![a] = x[b], ![b] = x[a]]

(***************************************************************************)
(* random.shuffle(x): for i from len(x)-1 down to 1, draw j below i+1 and  *)
(* exchange x[i] and x[j] (0-based).  Returns the list and the generator's *)
(* state after the draws.                                                  *)
(***************************************************************************)
RECURSIVE ShuffleFrom(_, _, _)
ShuffleFrom(x, i, s) ==
  IF i < 1 THEN [list |-> x, rng |-> s]
  ELSE LET s2 == RngNext(s)
           j == s2 % (i + 1)
       IN ShuffleFrom(Swap(x, i + 1, j + 1), i - 1, s2)

random_shuffle(x, s) == ShuffleFrom(x, Len(x) - 1, s)

(***************************************************************************)
(* The photos tree.  An entry of the root is a class directory             *)
(* [name, isdir, files]; an entry of a class directory is [name, kind],    *)
(* kind being what the file holds.                                         *)
(***************************************************************************)
OddKinds == {"gray", "cmyk", "corrupt", "ds"}

\* the number of colour channels the JPEG file itself has
NativeChannels(kind) == CASE kind = "rgb" -> 3 [] kind = "gray" -> 1 [] kind = "cmyk" -> 4

PlainFile(j) == [name |-> j, kind |-> "rgb"]
OddFile(j, kind) == IF kind = "ds" THEN [name |-> DS_Store, kind |-> "ds"]
                    ELSE [name |-> j, kind |-> kind]
ClassDir(c, files) == [name |-> c, isdir |-> TRUE, files |-> files]

ClassNames == 1..MaxClasses

\* the orders in which os.listdir may return a set of names
Listings(S) == {f \in [1..Cardinality(S) -> S] : \A a, b \in DOMAIN f : f[a] = f[b] => a = b}

\* any class directories, in any listing order, each empty or holding one image
ClassWorlds ==
  UNION {UNION {{[d \in DOMAIN order |->
                    ClassDir(order[d], IF order[d] \in full THEN <<PlainFile(1)>> ELSE <<>>)]
                 : full \in SUBSET S}
                : order \in Listings(S)}
         : S \in SUBSET ClassNames}

\* one class directory of up to MaxFiles entries, at most one of them not an RGB JPEG
ImageWorlds ==
  UNION {UNION {{<<ClassDir(c, [j \in 1..n |-> PlainFile(j)])>>}
                 \cup {<<ClassDir(c, [j \in 1..n |-> IF j = odd THEN OddFile(j, kind)
                                                     ELSE PlainFile(j)])>>
                       : odd \in 1..n, kind \in OddKinds}
                : n \in 0..MaxFiles}
         : c \in {k \in ClassNames : k = 1}}

Worlds == ClassWorlds \cup ImageWorlds

\* the number of images the tree holds
RECURSIVE NumImages(_)
NumImages(tree) ==
  IF tree = <<>> THEN 0
  ELSE Cardinality({j \in DOMAIN Head(tree).files : Head(tree).files[j].name # DS_Store})
       + NumImages(Tail(tree))

(***************************************************************************)
(* Names of the output files.  '%05d' is modelled by the five decimal      *)
(* digits it prints.                                                       *)
(***************************************************************************)
Pad5(n) == <<(n \div 10000) % 10, (n \div 1000) % 10, (n \div 100) % 10,
             (n \div 10) % 10, n % 10>>

_get_dataset_filename(subdir, split, shard) ==
  [dir |-> subdir, prefix |-> "tumblr", split |-> split, shard |-> Pad5(shard),
   of |-> Pad5(_NUM_SHARDS), ext |-> "tfrecord"]

SplitNames == <<"train", "validation">>

_dataset_exists(subdir) ==
  \A s \in 1..Len(SplitNames) : \A shard \in 0..(_NUM_SHARDS - 1) :
    _get_dataset_filename(subdir, SplitNames[s], shard) \in DOMAIN disk

(***************************************************************************)
(* _get_filenames_and_classes.  The root listing holds the class           *)
(* directories and whatever plain files lie in the photos subdirectory     *)
(* (shard files, when the records are written there); only directories     *)
(* are kept.  The path of an image is [dir, name].                         *)
(***************************************************************************)
RECURSIVE SetToSeq(_)
SetToSeq(S) == IF S = {} THEN <<>>
               ELSE LET x == CHOOSE y \in S : TRUE IN <<x>> \o SetToSeq(S \ {x})

RootListing ==
  photos \o SetToSeq({[name |-> f, isdir |-> FALSE, files |-> <<>>]
                      : f \in {g \in DOMAIN disk : g.dir = photos_subdir}})

IsDir(entry) == entry.isdir
NotDsStore(file) == file.name # DS_Store

RECURSIVE FilesOf(_)
FilesOf(directories) ==
  IF directories = <<>> THEN <<>>
  ELSE LET d == Head(directories)
           kept == SelectSeq(d.files, NotDsStore)
       IN [j \in DOMAIN kept |-> [dir |-> d.name, name |-> kept[j].name]]
          \o FilesOf(Tail(directories))

_get_filenames_and_classes ==
  LET directories == SelectSeq(RootListing, IsDir)
      names == [d \in DOMAIN directories |-> directories[d].name]
  IN [photo_filenames |-> FilesOf(directories), class_names |-> Sorted(names)]

(***************************************************************************)
(* Reading and decoding an image.                                          *)
(***************************************************************************)
\* tf.gfile.FastGFile(path).read(): the bytes of the file, here the file itself
ReadFile(path) ==
  LET d == CHOOSE e \in Range(photos) : e.name = path.dir
      f == CHOOSE e \in Range(d.files) : e.name = path.name
  IN [path |-> path, kind |-> f.kind]

\* tf.image.decode_jpeg(data, channels=3): the decoder is asked for three
\* output channels, whatever the file has; data that is no JPEG fails
Height(kind) == CASE kind = "rgb" -> 2 [] kind = "gray" -> 1 [] kind = "cmyk" -> 3
Width(kind) == CASE kind = "rgb" -> 3 [] kind = "gray" -> 1 [] kind = "cmyk" -> 2

DecodeFails(image_data) == image_data.kind = "corrupt"
Decoded(image_data) == <<Height(image_data.kind), Width(image_data.kind), 3>>

\* ImageReader.decode_jpeg: the two assertions on the decoded array
AssertionsHold(shape) == Len(shape) = 3 /\ shape[3] = 3

\* dataset_utils.image_to_tfexample
image_to_tfexample(image_data, format, height, width, class_id) ==
  [encoded |-> image_data, format |-> format, class_label |-> class_id,
   height |-> height, width |-> width]

(***************************************************************************)
(* _convert_dataset: the arithmetic of the shards.                         *)
(***************************************************************************)
\* variant: floor instead of ceil
NumPerShard_floor(n) == n \div _NUM_SHARDS
NumPerShard(n) == IF n % _NUM_SHARDS = 0 THEN n \div _NUM_SHARDS ELSE n \div _NUM_SHARDS + 1

StartNdx(shard, num_per_shard) == shard * num_per_shard

\* variant: the slice end clipped to len - 1
EndNdx_dropLast(shard, num_per_shard, n) == Min((shard + 1) * num_per_shard, n - 1)
EndNdx(shard, num_per_shard, n) == Min((shard + 1) * num_per_shard, n)

Filenames(split) == IF split = "train" THEN training_filenames ELSE validation_filenames
OutputFilename == _get_dataset_filename(tfrecords_subdir, split_name, shard_id)

\* what lines 137-141 do with image i: fail, or give the record to write
CurrentPath == Filenames(split_name)[ndx + 1]
CurrentFails ==
  LET image_data == ReadFile(CurrentPath)
  IN IF DecodeFails(image_data) THEN TRUE
     ELSE IF ~AssertionsHold(Decoded(image_data)) THEN TRUE
     ELSE CurrentPath.dir \notin DOMAIN class_names_to_ids
CurrentExample ==
  LET image_data == ReadFile(CurrentPath)
      shape == Decoded(image_data)
  IN image_to_tfexample(image_data, "jpg", shape[1], shape[2],
                        class_names_to_ids[CurrentPath.dir])

(***************************************************************************)
(* The initial state: a photos tree, the arguments the caller passes on    *)
(* every call, no output yet, and a generator in whatever state the        *)
(* process start left it.                                                  *)
(***************************************************************************)
NoSplit == [known |-> FALSE, training |-> <<>>, validation |-> <<>>]

Init ==
  /\ photos \in Worlds
  /\ num_valid \in (0 - MaxSlack)..(NumImages(photos) + MaxSlack)
  /\ photos_subdir = "photos"
  /\ tfrecords_subdir \in {"tfrecords", "photos"}
  /\ disk = <<>>
  /\ dirs = {"photos"}
  /\ labelFileExists = FALSE
  /\ rng \in RngStates
  /\ pc = "idle"
  /\ scanned_filenames = <<>>
  /\ photo_filenames = <<>>
  /\ class_names = <<>>
  /\ class_names_to_ids = <<>>
  /\ labels_to_class_names = <<>>
  /\ training_filenames = <<>>
  /\ validation_filenames = <<>>
  /\ split_name = "train"
  /\ shard_id = 0
  /\ ndx = 0
  /\ end_ndx = 0
  /\ writerOpen = FALSE
  /\ existedAtStart = FALSE
  /\ created = {}
  /\ labelsWritten = FALSE
  /\ decodes = 0
  /\ prevSplit = NoSplit

config == <<photos, num_valid, photos_subdir, tfrecords_subdir>>
locals == <<scanned_filenames, photo_filenames, class_names, class_names_to_ids,
            labels_to_class_names, training_filenames, validation_filenames>>
loop == <<split_name, shard_id, ndx, end_ndx, writerOpen>>

\* the run that just ended got as far as splitting the file list
HasSplit == pc \in {"convert", "aborted", "done"}

(***************************************************************************)
(* convert_images is called (lines 176-186): a new run begins, and the     *)
(* output directory is made if it is missing.                              *)
(***************************************************************************)
EnterConvertImages ==
  /\ pc \in {"idle", "done", "exited", "aborted"}
  /\ pc' = "check"
  /\ dirs' = dirs \cup {tfrecords_subdir}
  /\ scanned_filenames' = <<>>
  /\ photo_filenames' = <<>>
  /\ class_names' = <<>>
  /\ class_names_to_ids' = <<>>
  /\ labels_to_class_names' = <<>>
  /\ training_filenames' = <<>>
  /\ validation_filenames' = <<>>
  /\ split_name' = "train"
  /\ shard_id' = 0
  /\ ndx' = 0
  /\ end_ndx' = 0
  /\ writerOpen' = FALSE
  /\ existedAtStart' = _dataset_exists(tfrecords_subdir)
  /\ created' = {}
  /\ labelsWritten' = FALSE
  /\ decodes' = 0
  /\ prevSplit' = IF HasSplit
                  THEN [known |-> TRUE, training |-> training_filenames,
                        validation |-> validation_filenames]
                  ELSE prevSplit
  /\ UNCHANGED <<config, disk, labelFileExists, rng>>

(***************************************************************************)
(* Lines 188-190: the dataset is found to exist, and the run returns.      *)
(***************************************************************************)
EarlyExit ==
  /\ pc = "check"
  /\ _dataset_exists(photos_subdir)
  /\ pc' = "exited"
  /\ UNCHANGED <<config, disk, dirs, labelFileExists, rng, locals, loop,
                 existedAtStart, created, labelsWritten, decodes, prevSplit>>

(***************************************************************************)
(* Lines 192-202: scan, number the classes, reseed, shuffle, split, and    *)
(* enter _convert_dataset for the training split.                          *)
(***************************************************************************)
ScanAndSplit ==
  /\ pc = "check"
  /\ ~_dataset_exists(photos_subdir)
  /\ LET scan == _get_filenames_and_classes
         seeded == random_seed(rng, _RANDOM_SEED)
         shuffled == random_shuffle(scan.photo_filenames, seeded)
     IN /\ scanned_filenames' = scan.photo_filenames
        /\ class_names' = scan.class_names
        /\ class_names_to_ids' = DictZip(scan.class_names, RangeList(Len(scan.class_names)))
        /\ rng' = shuffled.rng
        /\ photo_filenames' = shuffled.list
        /\ training_filenames' = PySliceFrom(shuffled.list, num_valid)
        /\ validation_filenames' = PySliceTo(shuffled.list, num_valid)
  /\ pc' = "convert"
  /\ split_name' = "train"
  /\ shard_id' = 0
  /\ UNCHANGED <<config, disk, dirs, labelFileExists, labels_to_class_names, ndx, end_ndx,
                 writerOpen, existedAtStart, created, labelsWritten, decodes, prevSplit>>

\* variant: the shard file is created only when its slice is not empty
OpenShard_lazy ==
  /\ pc = "convert"
  /\ ~writerOpen
  /\ shard_id < _NUM_SHARDS
  /\ LET n == Len(Filenames(split_name))
         num_per_shard == NumPerShard(n)
         start == StartNdx(shard_id, num_per_shard)
         end == EndNdx(shard_id, num_per_shard, n)
     IN /\ ndx' = start
        /\ end_ndx' = end
        /\ disk' = IF start < end THEN (OutputFilename :> <<>>) @@ disk ELSE disk
        /\ created' = IF start < end THEN created \cup {OutputFilename} ELSE created
  /\ writerOpen' = TRUE
  /\ UNCHANGED <<config, dirs, labelFileExists, rng, pc, locals, split_name, shard_id,
                 existedAtStart, labelsWritten, decodes, prevSplit>>

(***************************************************************************)
(* Lines 125-131: the next shard's file is opened, which creates it or     *)
(* empties it, and its slice of the file list is computed.                 *)
(***************************************************************************)
OpenShard ==
  /\ pc = "convert"
  /\ ~writerOpen
  /\ shard_id < _NUM_SHARDS
  /\ LET n == Len(Filenames(split_name))
         num_per_shard == NumPerShard(n)
     IN /\ ndx' = StartNdx(shard_id, num_per_shard)
        /\ end_ndx' = EndNdx(shard_id, num_per_shard, n)
  /\ disk' = (OutputFilename :> <<>>) @@ disk
  /\ created' = created \cup {OutputFilename}
  /\ writerOpen' = TRUE
  /\ UNCHANGED <<config, dirs, labelFileExists, rng, pc, locals, split_name, shard_id,
                 existedAtStart, labelsWritten, decodes, prevSplit>>

(***************************************************************************)
(* Lines 132-145: image i is read, decoded and looked up, and its record   *)
(* is appended to the open shard.                                          *)
(***************************************************************************)
ConvertImage ==
  /\ pc = "convert"
  /\ writerOpen
  /\ ndx < end_ndx
  /\ ~CurrentFails
  /\ disk' = [disk EXCEPT ![OutputFilename] = Append(@, CurrentExample)]
  /\ ndx' = ndx + 1
  /\ decodes' = decodes + 1
  /\ UNCHANGED <<config, dirs, labelFileExists, rng, pc, locals, split_name, shard_id,
                 end_ndx, writerOpen, existedAtStart, created, labelsWritten, prevSplit>>

(***************************************************************************)
(* Lines 137-141 raise: the exception leaves the with blocks, which closes *)
(* the writer, and ends convert_images.  Nothing is removed.               *)
(***************************************************************************)
\* variant: the partial shard is deleted when the run aborts
AbortImage_cleanup ==
  /\ pc = "convert"
  /\ writerOpen
  /\ ndx < end_ndx
  /\ CurrentFails
  /\ pc' = "aborted"
  /\ writerOpen' = FALSE
  /\ decodes' = decodes + 1
  /\ disk' = [f \in DOMAIN disk \ {OutputFilename} |-> disk[f]]
  /\ UNCHANGED <<config, dirs, labelFileExists, rng, locals, split_name, shard_id,
                 ndx, end_ndx, existedAtStart, created, labelsWritten, prevSplit>>

AbortImage ==
  /\ pc = "convert"
  /\ writerOpen
  /\ ndx < end_ndx
  /\ CurrentFails
  /\ pc' = "aborted"
  /\ writerOpen' = FALSE
  /\ decodes' = decodes + 1
  /\ UNCHANGED <<config, disk, dirs, labelFileExists, rng, locals, split_name, shard_id,
                 ndx, end_ndx, existedAtStart, created, labelsWritten, prevSplit>>

(***************************************************************************)
(* Line 129, leaving the with block: the slice is exhausted, the writer is *)
(* closed, and the loop of line 125 goes on to the next shard.             *)
(***************************************************************************)
CloseShard ==
  /\ pc = "convert"
  /\ writerOpen
  /\ ndx >= end_ndx
  /\ writerOpen' = FALSE
  /\ shard_id' = shard_id + 1
  /\ UNCHANGED <<config, disk, dirs, labelFileExists, rng, pc, locals, split_name,
                 ndx, end_ndx, existedAtStart, created, labelsWritten, decodes, prevSplit>>

(***************************************************************************)
(* Lines 202-204: _convert_dataset returns for the training split and is   *)
(* called for the validation split.                                        *)
(***************************************************************************)
NextSplit ==
  /\ pc = "convert"
  /\ ~writerOpen
  /\ shard_id = _NUM_SHARDS
  /\ split_name = "train"
  /\ split_name' = "validation"
  /\ shard_id' = 0
  /\ UNCHANGED <<config, disk, dirs, labelFileExists, rng, pc, locals, ndx, end_ndx,
                 writerOpen, existedAtStart, created, labelsWritten, decodes, prevSplit>>

(***************************************************************************)
(* Lines 204-212: _convert_dataset returns for the validation split, and   *)
(* the label file is written from the id -> class name map.                *)
(***************************************************************************)
WriteLabels ==
  /\ pc = "convert"
  /\ ~writerOpen
  /\ shard_id = _NUM_SHARDS
  /\ split_name = "validation"
  /\ labels_to_class_names' = DictZip(RangeList(Len(class_names)), class_names)
  /\ labelFileExists' = TRUE
  /\ labelsWritten' = TRUE
  /\ pc' = "done"
  /\ UNCHANGED <<config, disk, dirs, rng, scanned_filenames, photo_filenames, class_names,
                 class_names_to_ids, training_filenames, validation_filenames, loop,
                 existedAtStart, created, decodes, prevSplit>>

Next ==
  \/ EnterConvertImages
  \/ EarlyExit
  \/ ScanAndSplit
  \/ OpenShard
  \/ ConvertImage
  \/ AbortImage
  \/ CloseShard
  \/ NextSplit
  \/ WriteLabels

Spec == Init /\ [][Next]_vars

(***************************************************************************)
(* Notions the properties share.                                           *)
(***************************************************************************)
Splits == {"train", "validation"}

\* _convert_dataset has returned for the split in the current run
SplitConverted(split) ==
  \/ pc = "done"
  \/ pc = "convert" /\ split_name = split /\ shard_id = 5 /\ ~writerOpen
  \/ pc \in {"convert", "aborted"} /\ split = "train" /\ split_name = "validation"

\* the name the interface gives shard s of a split
ExpectedName(split, s) ==
  [dir |-> tfrecords_subdir, prefix |-> "tumblr", split |-> split,
   shard |-> <<0, 0, 0, 0, s>>, of |-> <<0, 0, 0, 0, 5>>, ext |-> "tfrecord"]
ExpectedNames == {ExpectedName(split, s) : split \in Splits, s \in 0..4}

\* the records of a converted split, shard after shard
AllRecords(split) == Concat([s \in 1..5 |-> disk[ExpectedName(split, s - 1)]])

\* ceil(n / 5)
Ceil5(n) == (n + 4) \div 5

ClassDirNames == {photos[d].name : d \in DOMAIN photos}
RankOf(c) == Cardinality({x \in ClassDirNames : x < c})

(***************************************************************************)
(* C1: when every shard file of both splits exists under the tfrecords     *)
(* subdirectory as a run begins, the run opens no shard file, writes no    *)
(* label file, scans nothing and decodes nothing.                          *)
(***************************************************************************)
C1_NoWorkWhenOutputExists ==
  existedAtStart =>
    /\ pc \in {"check", "exited"}
    /\ created = {}
    /\ ~labelsWritten
    /\ decodes = 0

(***************************************************************************)
(* C2: once _convert_dataset has returned for a split, the records of its  *)
(* five shards, taken in shard order, are the records of the split's       *)
(* filenames in list order: as many records as filenames, and each         *)
(* filename exactly once.                                                  *)
(***************************************************************************)
C2_RecordsCoverFilenames ==
  \A split \in Splits :
    SplitConverted(split) =>
      LET all == AllRecords(split)
          names == Filenames(split)
      IN /\ Len(all) = Len(names)
         /\ \A k \in 1..Len(names) : all[k].encoded.path = names[k]
         /\ \A k \in 1..Len(names) :
              Cardinality({m \in 1..Len(all) : all[m].encoded.path = names[k]}) = 1

C2_Witness ==
  /\ pc = "done"
  /\ Len(training_filenames) > 5
  /\ Len(AllRecords("train")) = Len(training_filenames)

(***************************************************************************)
(* C3: with 0 <= num_valid <= total, validation is the first num_valid     *)
(* filenames of the shuffled list and training is the rest; the two are    *)
(* disjoint and together are the scanned list.                             *)
(***************************************************************************)
C3_SplitByNumValid ==
  (HasSplit /\ 0 <= num_valid /\ num_valid <= Len(scanned_filenames)) =>
    LET total == Len(scanned_filenames)
    IN /\ Len(photo_filenames) = total
       /\ Len(validation_filenames) = num_valid
       /\ Len(training_filenames) = total - num_valid
       /\ \A k \in 1..num_valid : validation_filenames[k] = photo_filenames[k]
       /\ \A k \in 1..(total - num_valid) :
            training_filenames[k] = photo_filenames[num_valid + k]
       /\ Range(training_filenames) \cap Range(validation_filenames) = {}
       /\ Range(training_filenames) \cup Range(validation_filenames)
            = Range(scanned_filenames)

C3_Witness ==
  /\ HasSplit
  /\ num_valid >= 2
  /\ Len(scanned_filenames) - num_valid >= 2
  /\ photo_filenames # scanned_filenames

(***************************************************************************)
(* C4: no record is ever written for an image whose file has other than    *)
(* three colour channels.                                                  *)
(***************************************************************************)
C4_NonRgbNeverWritten ==
  \A f \in DOMAIN disk : \A k \in 1..Len(disk[f]) :
    NativeChannels(disk[f][k].encoded.kind) = 3

(***************************************************************************)
(* C5: a run that converts to the end has created exactly the ten files    *)
(* tumblr_<split>_0000<s>-of-00005.tfrecord, five per split, whatever the  *)
(* number of images; the shards of a split without images are empty files. *)
(***************************************************************************)
C5_TenShardFiles ==
  pc = "done" =>
    /\ created = ExpectedNames
    /\ Cardinality(created) = 10
    /\ \A split \in Splits : Cardinality({f \in created : f.split = split}) = 5
    /\ created \subseteq DOMAIN disk
    /\ \A f \in created : Filenames(f.split) = <<>> => disk[f] = <<>>

C5_Witness ==
  /\ pc = "done"
  /\ training_filenames = <<>>
  /\ validation_filenames # <<>>

(***************************************************************************)
(* C6: the class name -> id map is a bijection from the class directories  *)
(* onto 0..num_classes-1, the id of a class is its position in the sorted  *)
(* list of names, every record carries that id, and the id -> name map     *)
(* given to the label writer is the inverse.                               *)
(***************************************************************************)
C6_ClassIdsBySortedOrder ==
  HasSplit =>
    LET n == Cardinality(ClassDirNames)
    IN /\ DOMAIN class_names_to_ids = ClassDirNames
       /\ {class_names_to_ids[c] : c \in ClassDirNames} = 0..(n - 1)
       /\ \A c, d \in ClassDirNames :
            class_names_to_ids[c] = class_names_to_ids[d] => c = d
       /\ \A c \in ClassDirNames : class_names_to_ids[c] = RankOf(c)
       /\ \A f \in created : \A k \in 1..Len(disk[f]) :
            disk[f][k].class_label = RankOf(disk[f][k].encoded.path.dir)
       /\ pc = "done" =>
            /\ DOMAIN labels_to_class_names = 0..(n - 1)
            /\ \A c \in ClassDirNames : labels_to_class_names[class_names_to_ids[c]] = c
            /\ \A id \in 0..(n - 1) : class_names_to_ids[labels_to_class_names[id]] = id

C6_Witness ==
  /\ pc = "done"
  /\ Len(photos) >= 2
  /\ photos[1].name > photos[2].name
  /\ \E f \in created : Len(disk[f]) > 0

(***************************************************************************)
(* C7: a run that splits the same file list with the same num_valid as the *)
(* run before it gets the same training list and the same validation list. *)
(***************************************************************************)
C7_SameSplitOnRerun ==
  (HasSplit /\ prevSplit.known) =>
    /\ training_filenames = prevSplit.training
    /\ validation_filenames = prevSplit.validation

C7_Witness ==
  /\ HasSplit
  /\ prevSplit.known
  /\ Len(scanned_filenames) >= 3
  /\ photo_filenames # scanned_filenames
  /\ training_filenames # <<>>
  /\ validation_filenames # <<>>

(***************************************************************************)
(* C8, as claimed: in a converted split of n filenames, each of the shards *)
(* 0..3 holds exactly ceil(n/5) records.                                   *)
(***************************************************************************)
C8_FirstFourShardsFull ==
  \A split \in Splits :
    SplitConverted(split) =>
      \A s \in 0..3 :
        Len(disk[ExpectedName(split, s)]) = Ceil5(Len(Filenames(split)))

(***************************************************************************)
(* C8, amended: shard s of a converted split of n filenames holds          *)
(* min(ceil(n/5), max(0, n - s*ceil(n/5))) records: the shards are full    *)
(* until the list runs out, and every shard after that, not only the last, *)
(* is smaller or empty.                                                    *)
(***************************************************************************)
C8_ShardSizes ==
  \A split \in Splits :
    SplitConverted(split) =>
      LET n == Len(Filenames(split))
      IN \A s \in 0..4 :
           Len(disk[ExpectedName(split, s)])
             = Min(Ceil5(n), Max(0, n - s * Ceil5(n)))

C8_Witness ==
  /\ SplitConverted("train")
  /\ Len(training_filenames) = 6
  /\ disk[ExpectedName("train", 2)] # <<>>
  /\ disk[ExpectedName("train", 3)] = <<>>

(***************************************************************************)
(* C9: when a run has aborted at image i of shard s of a split, this run   *)
(* wrote the records of the images before i and no others, opened no shard *)
(* of that split beyond s and no validation shard if the split is train,   *)
(* wrote no label file, and every file it opened is still on disk, the     *)
(* partial shard s included.                                               *)
(***************************************************************************)
C9_AbortLeavesPartialOutput ==
  pc = "aborted" =>
    LET names == Filenames(split_name)
        c == Ceil5(Len(names))
        written(split) == Concat([s \in 1..5 |->
                            IF ExpectedName(split, s - 1) \in created
                            THEN disk[ExpectedName(split, s - 1)] ELSE <<>>])
    IN /\ ndx < Len(names)
       /\ ReadFile(names[ndx + 1]).kind = "corrupt"
       /\ created \subseteq DOMAIN disk
       /\ created = {ExpectedName(split_name, s) : s \in 0..shard_id}
                    \cup (IF split_name = "validation"
                          THEN {ExpectedName("train", s) : s \in 0..4} ELSE {})
       /\ Len(written(split_name)) = ndx
       /\ \A k \in 1..ndx : written(split_name)[k].encoded.path = names[k]
       /\ \A s \in 0..(shard_id - 1) : Len(disk[ExpectedName(split_name, s)]) = c
       /\ Len(disk[ExpectedName(split_name, shard_id)]) = ndx - shard_id * c
       /\ split_name = "train" => written("validation") = <<>>
       /\ split_name = "validation" =>
            /\ Len(written("train")) = Len(training_filenames)
            /\ \A k \in 1..Len(training_filenames) :
                 written("train")[k].encoded.path = training_filenames[k]
       /\ ~labelsWritten
       /\ decodes = Len(written("train")) + Len(written("validation")) + 1

C9_Witness ==
  /\ pc = "aborted"
  /\ split_name = "train"
  /\ shard_id >= 1
  /\ disk[ExpectedName("train", shard_id)] # <<>>
  /\ ndx + 1 < Len(training_filenames)

(***************************************************************************)
(* C10: whatever integer num_valid is, no run fails at the split (a run    *)
(* that aborts has split and has reached an image), the training and       *)
(* validation lists are disjoint and together hold every scanned filename  *)
(* exactly once; a num_valid above the number of images leaves training    *)
(* empty and puts every image in validation.                               *)
(***************************************************************************)
C10_SplitIsPartition ==
  /\ pc = "aborted" => (HasSplit /\ decodes >= 1)
  /\ HasSplit =>
       /\ Range(training_filenames) \cap Range(validation_filenames) = {}
       /\ Range(training_filenames) \cup Range(validation_filenames)
            = Range(scanned_filenames)
       /\ Len(training_filenames) + Len(validation_filenames) = Len(scanned_filenames)
       /\ Cardinality(Range(scanned_filenames)) = Len(scanned_filenames)
       /\ num_valid > Len(scanned_filenames) =>
            /\ training_filenames = <<>>
            /\ validation_filenames = photo_filenames

C10_Witness ==
  /\ HasSplit
  /\ num_valid < 0
  /\ Len(scanned_filenames) >= 3
  /\ training_filenames # <<>>
  /\ validation_filenames # <<>>
====
